---- MODULE Spec2Model ----
(***************************************************************************)
(* Model of the wdc web driver client: the transport (Client.do), the      *)
(* response pipeline (check), the error taxonomy (errs, legacyErrs) and    *)
(* the polling operations (ElementWaitFor...).                             *)
(***************************************************************************)
EXTENDS Integers, Sequences, FiniteSets, TLC

VARIABLES
    called,     \* do: the call was made
    ctxState,   \* do: state of ctx when the network attempt finished
    netOK,      \* do: c.client.Do returned a response (err == nil)
    resp,       \* do: the response obtained, NoResponse before any call
    v0,         \* do: the caller's result sink before the call
    v,          \* do: the caller's result sink after the call
    checkErr,   \* do: what check(resp) returned, NotChecked when not reached
    err,        \* do: the error do returned
    bodyClosed, \* do: resp.Body was closed by the deferred safeclose
    closeErr,   \* do: resp.Body.Close() fails
    panicked,   \* do: the call panicked instead of returning
    pc,         \* poll: position of the polling operation
    op,         \* poll: which ElementWaitFor... operation runs
    ival,       \* poll: i, the interval between attempts
    maxWait,    \* poll: t, the maximum wait
    ctxDone,    \* poll: state of the caller's ctx
    ctxAt,      \* poll: where the operation was when ctx became done
    now,        \* poll: the wall clock
    start,      \* poll: start := time.Now()
    res,        \* poll: the sink reused by every attempt
    attempts,   \* poll: number of c.do calls made
    sleeps,     \* poll: number of time.Sleep calls made
    lastErr,    \* poll: what the most recent c.do returned
    satisfied,  \* poll: the attempt that met the predicate, 0 when none did
    ret,        \* poll: what the operation returned, Running before that
    reqBody,    \* request: state of req.Body, the buffer the request was built on
    bodyAtSend, \* request: state of req.Body when req was last handed to c.do
    result,     \* command: the value the operation returned with its error
    sess,       \* the Session struct the caller's pointer s refers to
    sess0,      \* the value of that struct when New was called
    client,     \* the Client New returned, NoClient when it returned none
    newErr,     \* the error New returned
    reqURL,     \* the target of the request the latest command built
    cmds,       \* number of commands issued through the Client
    cmdOp,      \* the latest command issued through the Client
    scriptPc,      \* script: position of the caller that runs a script
    scriptEntries, \* script: what the arguments are made from
    scriptArgs,    \* script: args as passed to PageScript
    scriptOut,     \* script: the Args of the scriptRequest
    cpc,        \* concurrent: position of each caller's command
    cop,        \* concurrent: the command each caller runs
    cnet,       \* concurrent: what the network gave each caller's request
    cerr,       \* concurrent: err, the local variable of each call
    csink,      \* concurrent: the sinks the calls allocated
    cret,       \* concurrent: what each call returned
    shared,     \* concurrent: the Client, its Session and the error tables
    crashed,    \* concurrent: a panic ended the process
    overlap     \* concurrent: a call ran do between another's do and return

doVars   == <<called, ctxState, netOK, resp, v0, v, checkErr, err, bodyClosed,
              closeErr, panicked>>
pollVars == <<pc, op, ival, maxWait, ctxDone, ctxAt, now, start, res,
              attempts, sleeps, lastErr, satisfied, ret>>
reqVars  == <<reqBody, bodyAtSend, result>>
vars     == <<called, ctxState, netOK, resp, v0, v, checkErr, err, bodyClosed,
              closeErr, panicked,
              pc, op, ival, maxWait, ctxDone, ctxAt, now, start, res,
              attempts, sleeps, lastErr, satisfied, ret,
              reqBody, bodyAtSend, result,
              sess, sess0, client, newErr, reqURL, cmds, cmdOp,
              scriptPc, scriptEntries, scriptArgs, scriptOut,
              cpc, cop, cnet, cerr, csink, cret, shared, crashed, overlap>>
concVars == <<cpc, cop, cnet, cerr, csink, cret, shared, crashed, overlap>>
scriptVars == <<scriptPc, scriptEntries, scriptArgs, scriptOut>>
clientVars == <<sess, sess0, client, newErr, reqURL, cmds, cmdOp>>

(* what an action of one part of the model leaves alone                    *)
notDo     == <<pollVars, reqVars, clientVars, scriptVars, concVars>>
notPoll   == <<doVars, clientVars, scriptVars, concVars>>
notClient == <<doVars, pollVars, reqVars, scriptVars, concVars>>
notScript == <<doVars, pollVars, reqVars, clientVars, concVars>>
notConc   == <<doVars, pollVars, reqVars, clientVars, scriptVars>>

----------------------------------------------------------------------------
(* Sentinel errors, wdc.go "ERRORS".  Each is a distinct error value.      *)

ErrorElementClickIntercepted == "ErrorElementClickIntercepted"
ErrorElementNotInteractable == "ErrorElementNotInteractable"
ErrorInsecureCertificate == "ErrorInsecureCertificate"
ErrorInvalidArgument == "ErrorInvalidArgument"
ErrorInvalidCookieDomain == "ErrorInvalidCookieDomain"
ErrorInvalidElementState == "ErrorInvalidElementState"
ErrorInvalidSelector == "ErrorInvalidSelector"
ErrorInvalidSessionID == "ErrorInvalidSessionID"
ErrorJavaScriptError == "ErrorJavaScriptError"
ErrorMoveTargetOutOfBounds == "ErrorMoveTargetOutOfBounds"
ErrorNoSuchAlert == "ErrorNoSuchAlert"
ErrorNoSuchCookie == "ErrorNoSuchCookie"
ErrorNoSuchElement == "ErrorNoSuchElement"
ErrorNoSuchFrame == "ErrorNoSuchFrame"
ErrorNoSuchWindow == "ErrorNoSuchWindow"
ErrorScriptTimeout == "ErrorScriptTimeout"
ErrorSessionNotCreated == "ErrorSessionNotCreated"
ErrorStaleElementReference == "ErrorStaleElementReference"
ErrorTimeout == "ErrorTimeout"
ErrorUnableToSetCookie == "ErrorUnableToSetCookie"
ErrorUnableToCaptureScreen == "ErrorUnableToCaptureScreen"
ErrorUnexpectedAlertOpen == "ErrorUnexpectedAlertOpen"
ErrorUnknownCommand == "ErrorUnknownCommand"
ErrorUnknownError == "ErrorUnknownError"
ErrorUnknownMethod == "ErrorUnknownMethod"
ErrorUnsupportedOperation == "ErrorUnsupportedOperation"

(* The text each sentinel was created with, errors.New("...").             *)
SentinelText ==
    [k \in {ErrorElementClickIntercepted} |-> "element click intercepted"] @@
    [k \in {ErrorElementNotInteractable} |-> "element not interactable"] @@
    [k \in {ErrorInsecureCertificate} |-> "insecure certificate"] @@
    [k \in {ErrorInvalidArgument} |-> "invalid argument"] @@
    [k \in {ErrorInvalidCookieDomain} |-> "invalid cookie domain"] @@
    [k \in {ErrorInvalidElementState} |-> "invalid element state"] @@
    [k \in {ErrorInvalidSelector} |-> "invalid selector"] @@
    [k \in {ErrorInvalidSessionID} |-> "invalid session id"] @@
    [k \in {ErrorJavaScriptError} |-> "javascript error"] @@
    [k \in {ErrorMoveTargetOutOfBounds} |-> "move target out of bounds"] @@
    [k \in {ErrorNoSuchAlert} |-> "no such alert"] @@
    [k \in {ErrorNoSuchCookie} |-> "no such cookie"] @@
    [k \in {ErrorNoSuchElement} |-> "no such element"] @@
    [k \in {ErrorNoSuchFrame} |-> "no such frame"] @@
    [k \in {ErrorNoSuchWindow} |-> "no such window"] @@
    [k \in {ErrorScriptTimeout} |-> "script timeout"] @@
    [k \in {ErrorSessionNotCreated} |-> "session not created"] @@
    [k \in {ErrorStaleElementReference} |-> "stale element reference"] @@
    [k \in {ErrorTimeout} |-> "timeout"] @@
    [k \in {ErrorUnableToSetCookie} |-> "unable to set cookie"] @@
    [k \in {ErrorUnableToCaptureScreen} |-> "unable to capture screen"] @@
    [k \in {ErrorUnexpectedAlertOpen} |-> "unexpected alert open"] @@
    [k \in {ErrorUnknownCommand} |-> "unknown command"] @@
    [k \in {ErrorUnknownError} |-> "unknown error"] @@
    [k \in {ErrorUnknownMethod} |-> "unknown method"] @@
    [k \in {ErrorUnsupportedOperation} |-> "unsupported operation"]

Sentinels == DOMAIN SentinelText

(* var errs = map[string]error{...}                                        *)
errs ==
    [k \in {"element click intercepted"} |-> ErrorElementClickIntercepted] @@
    [k \in {"element not interactable"} |-> ErrorElementNotInteractable] @@
    [k \in {"insecure certificate"} |-> ErrorInsecureCertificate] @@
    [k \in {"invalid argument"} |-> ErrorInvalidArgument] @@
    [k \in {"invalid cookie domain"} |-> ErrorInvalidCookieDomain] @@
    [k \in {"invalid element state"} |-> ErrorInvalidElementState] @@
    [k \in {"invalid selector"} |-> ErrorInvalidSelector] @@
    [k \in {"invalid session id"} |-> ErrorInvalidSessionID] @@
    [k \in {"javascript error"} |-> ErrorJavaScriptError] @@
    [k \in {"move target out of bounds"} |-> ErrorMoveTargetOutOfBounds] @@
    [k \in {"no such alert"} |-> ErrorNoSuchAlert] @@
    [k \in {"no such cookie"} |-> ErrorNoSuchCookie] @@
    [k \in {"no such element"} |-> ErrorNoSuchElement] @@
    [k \in {"no such frame"} |-> ErrorNoSuchFrame] @@
    [k \in {"no such window"} |-> ErrorNoSuchWindow] @@
    [k \in {"script timeout"} |-> ErrorScriptTimeout] @@
    [k \in {"session not created"} |-> ErrorSessionNotCreated] @@
    [k \in {"stale element reference"} |-> ErrorStaleElementReference] @@
    [k \in {"timeout"} |-> ErrorTimeout] @@
    [k \in {"unable to set cookie"} |-> ErrorUnableToSetCookie] @@
    [k \in {"unable to capture screen"} |-> ErrorUnableToCaptureScreen] @@
    [k \in {"unexpected alert open"} |-> ErrorUnexpectedAlertOpen] @@
    [k \in {"unknown command"} |-> ErrorUnknownCommand] @@
    [k \in {"unknown error"} |-> ErrorUnknownError] @@
    [k \in {"unknown method"} |-> ErrorUnknownMethod] @@
    [k \in {"unsupported operation"} |-> ErrorUnsupportedOperation]

(* var legacyErrs = map[int]error{...}; the mutant sends 7 to the frame    *)
(* error next to it.                                                       *)
legacyErrsShifted ==
    [k \in {7, 8} |-> ErrorNoSuchFrame] @@
    [k \in {9} |-> ErrorUnknownCommand] @@
    [k \in {10} |-> ErrorStaleElementReference] @@
    [k \in {12} |-> ErrorInvalidElementState] @@
    [k \in {13} |-> ErrorUnknownError] @@
    [k \in {17} |-> ErrorJavaScriptError] @@
    [k \in {21} |-> ErrorTimeout] @@
    [k \in {23} |-> ErrorNoSuchWindow] @@
    [k \in {24} |-> ErrorInvalidCookieDomain] @@
    [k \in {25} |-> ErrorUnableToSetCookie] @@
    [k \in {26} |-> ErrorUnexpectedAlertOpen] @@
    [k \in {28} |-> ErrorScriptTimeout] @@
    [k \in {32} |-> ErrorInvalidSelector] @@
    [k \in {33} |-> ErrorSessionNotCreated] @@
    [k \in {34} |-> ErrorMoveTargetOutOfBounds]

legacyErrs ==
    [k \in {7} |-> ErrorNoSuchElement] @@
    [k \in {8} |-> ErrorNoSuchFrame] @@
    [k \in {9} |-> ErrorUnknownCommand] @@
    [k \in {10} |-> ErrorStaleElementReference] @@
    [k \in {12} |-> ErrorInvalidElementState] @@
    [k \in {13} |-> ErrorUnknownError] @@
    [k \in {17} |-> ErrorJavaScriptError] @@
    [k \in {21} |-> ErrorTimeout] @@
    [k \in {23} |-> ErrorNoSuchWindow] @@
    [k \in {24} |-> ErrorInvalidCookieDomain] @@
    [k \in {25} |-> ErrorUnableToSetCookie] @@
    [k \in {26} |-> ErrorUnexpectedAlertOpen] @@
    [k \in {28} |-> ErrorScriptTimeout] @@
    [k \in {32} |-> ErrorInvalidSelector] @@
    [k \in {33} |-> ErrorSessionNotCreated] @@
    [k \in {34} |-> ErrorMoveTargetOutOfBounds]

----------------------------------------------------------------------------
(* Error values.  A Go error is a record; its "type" is its dynamic type.  *)

Nil == [type |-> "nil"]

(* errors.New sentinel returned as it is                                   *)
Sentinel(k) == [type |-> "errorString", id |-> k]

(* json.SyntaxError / json.UnmarshalTypeError                              *)
JSONError == [type |-> "json"]

(* the error of a failed read of the response body                         *)
ReadError == [type |-> "io"]

(* the error c.client.Do returned                                          *)
NetError == [type |-> "net"]

(* ctx.Err(): context.Canceled or context.DeadlineExceeded                 *)
CtxErr(c) == [type |-> "ctx", which |-> c]

(* type ErrorResponse struct, without the fields no code reads             *)
ErrorResponse(e, m, st, s) ==
    [type |-> "ErrorResponse",
     Value |-> [Err |-> e, Message |-> m, Stacktrace |-> st],
     Status |-> s]

(* func (e *ErrorResponse) Error() string                                  *)
ErrorResponseError(e) == e.Value.Message

(* fmt.Errorf("%w: %s", err, errResp): the text is err's text, ": " and    *)
(* errResp.Error(); Unwrap gives err.                                      *)
Errorf(k, e) ==
    [type |-> "wrapError", unwrap |-> k,
     msg |-> <<SentinelText[k], ": ", ErrorResponseError(e)>>]

(* errors.Is(e, target) for a sentinel target                              *)
Is(e, target) ==
    \/ e.type = "errorString" /\ e.id = target
    \/ e.type = "wrapError" /\ e.unwrap = target

----------------------------------------------------------------------------
(* Responses.                                                              *)

(* Bound: number of distinct message texts and of stacktrace texts a       *)
(* server sends.                                                           *)
MaxTexts == 2

Texts == <<"", "Unable to locate element", "no such element",
           "stale element reference", "timeout">>
Messages == {Texts[n] : n \in 1..(IF MaxTexts < 5 THEN MaxTexts ELSE 5)}
Stacktraces == {"", "at Object.find (driver.js:10)"}

(* wire error strings: every key of errs, the absent string and two that   *)
(* are no key                                                              *)
ErrStrings == DOMAIN errs \cup {"", "detached shadow root", "No Such Element"}

(* legacy statuses: every key of legacyErrs, absent (0) and some non-keys  *)
LegacyStatuses == DOMAIN legacyErrs \cup {0, 1, 6, 11, 35}

StatusCodes == {199, 200, 204, 299, 300, 404}

(* the "value" member of a JSON body                                       *)
ValueAbsent == [t |-> "absent"]
ValueObject(e, m, st) == [t |-> "object", error |-> e, message |-> m,
                          stacktrace |-> st]
ValueString(s) == [t |-> "string", s |-> s]
ValueBool(b) == [t |-> "bool", b |-> b]
ValueMap(m) == [t |-> "map", m |-> m]
ValueList(l) == [t |-> "list", l |-> l]

(* const WebElementIDW3C, WebElementIDLegacy                               *)
WebElementIDW3C == "element-6066-11e4-a52e-4f735466cecf"
WebElementIDLegacy == "ELEMENT"

BodyUnreadable == [form |-> "unreadable"]
BodyEmpty == [form |-> "empty"]
BodyMalformed == [form |-> "malformed"]
BodyJSON(val, s) == [form |-> "json", value |-> val, status |-> s]

(* every error string with a few statuses, and every status with a few    *)
(* error strings                                                           *)
Discriminants ==
    (ErrStrings \X {0, 1, 7, 8})
    \cup ({"", "no such element", "detached shadow root"} \X LegacyStatuses)

ErrorBodies ==
    {BodyJSON(ValueObject(d[1], m, st), d[2]) :
        d \in Discriminants, m \in Messages, st \in Stacktraces}

ValueBodies ==
    {BodyJSON(val, 0) :
        val \in {ValueAbsent, ValueBool(TRUE), ValueBool(FALSE),
                 ValueString(""), ValueString("text"),
                 ValueMap([k \in {WebElementIDW3C} |-> "ref-1"])}}

Bodies == {BodyUnreadable, BodyEmpty, BodyMalformed}
          \cup ErrorBodies \cup ValueBodies

Response(c, b) == [StatusCode |-> c, Body |-> b]

NoResponse == [StatusCode |-> 0, Body |-> BodyEmpty]

(* result sinks: nil, *boolValue, *stringValue                             *)
NilSink == [type |-> "nil"]
boolValue(b) == [type |-> "boolValue", Value |-> b]
stringValue(s) == [type |-> "stringValue", Value |-> s]
elementResponse(m) == [type |-> "elementResponse", Value |-> m]
elementsResponse(l) == [type |-> "elementsResponse", Value |-> l]

(* the nil map of a new(elementResponse)                                   *)
EmptyMap == [k \in {} |-> ""]

Sinks == {NilSink, boolValue(FALSE), stringValue(""), stringValue("old")}

(* string(p.Value): the raw JSON text of a value that is no string         *)
RawText(val) ==
    IF val.t = "bool" THEN (IF val.b THEN "true" ELSE "false")
    ELSE "{...}"

(* json.Unmarshal(data, errResp) for errResp := &ErrorResponse{}           *)
UnmarshalErrorResponse(b) ==
    IF b.form # "json" THEN [err |-> JSONError,
                             val |-> ErrorResponse("", "", "", 0)]
    ELSE IF b.value.t = "object"
         THEN [err |-> Nil,
               val |-> ErrorResponse(b.value.error, b.value.message,
                                     b.value.stacktrace, b.status)]
    ELSE IF b.value.t = "list"
         THEN [err |-> JSONError, val |-> ErrorResponse("", "", "", b.status)]
    ELSE IF b.value.t \in {"absent", "map"}
         THEN [err |-> Nil, val |-> ErrorResponse("", "", "", b.status)]
    ELSE [err |-> JSONError, val |-> ErrorResponse("", "", "", b.status)]

(* json.NewDecoder(resp.Body).Decode(v); EOF is the error of an empty body *)
EOF == [type |-> "EOF"]

Decode(b, sink) ==
    IF b.form = "unreadable" THEN [err |-> ReadError, v |-> sink]
    ELSE IF b.form = "empty" THEN [err |-> EOF, v |-> sink]
    ELSE IF b.form = "malformed" THEN [err |-> JSONError, v |-> sink]
    ELSE IF sink.type = "nil" THEN [err |-> Nil, v |-> sink]
    ELSE IF sink.type = "boolValue"
         THEN IF b.value.t = "bool"
              THEN [err |-> Nil, v |-> boolValue(b.value.b)]
              ELSE IF b.value.t = "absent" THEN [err |-> Nil, v |-> sink]
              ELSE [err |-> JSONError, v |-> sink]
    ELSE IF sink.type = "elementsResponse"
         THEN IF b.value.t = "list"
              THEN [err |-> Nil, v |-> elementsResponse(b.value.l)]
              ELSE IF b.value.t = "absent" THEN [err |-> Nil, v |-> sink]
              ELSE [err |-> JSONError, v |-> sink]
    ELSE IF sink.type = "elementResponse"
         THEN IF b.value.t = "map"
              THEN \* entries are added to the map the sink already has
                   [err |-> Nil, v |-> elementResponse(b.value.m @@ sink.Value)]
              ELSE IF b.value.t = "object"
              THEN [err |-> Nil,
                    v |-> elementResponse(
                              [k \in {"error"} |-> b.value.error] @@
                              [k \in {"message"} |-> b.value.message] @@
                              [k \in {"stacktrace"} |-> b.value.stacktrace] @@
                              sink.Value)]
              ELSE IF b.value.t = "absent" THEN [err |-> Nil, v |-> sink]
              ELSE [err |-> JSONError, v |-> sink]
    ELSE \* stringValue.UnmarshalJSON
         IF b.value.t = "string"
         THEN [err |-> Nil, v |-> stringValue(b.value.s)]
         ELSE IF b.value.t = "absent" THEN [err |-> Nil, v |-> stringValue("")]
         ELSE [err |-> Nil, v |-> stringValue(RawText(b.value))]

----------------------------------------------------------------------------
(* check checks the server response for errors.                            *)

IsSuccessWide(c) == 200 <= c /\ c <= 300

IsSuccess(c) == 200 <= c /\ c <= 299

checkLegacyOnUnknown(r) ==
    IF IsSuccess(r.StatusCode) THEN Nil
    ELSE IF r.Body.form = "unreadable" THEN ReadError
    ELSE LET u == UnmarshalErrorResponse(r.Body)
             errResp == u.val
         IN  IF u.err # Nil THEN u.err
             ELSE IF errResp.Value.Err \in DOMAIN errs
                  THEN Errorf(errs[errResp.Value.Err], errResp)
             ELSE IF errResp.Status # 0 /\ errResp.Status \in DOMAIN legacyErrs
                  THEN Errorf(legacyErrs[errResp.Status], errResp)
             ELSE errResp

checkLegacyFirst(r) ==
    IF IsSuccess(r.StatusCode) THEN Nil
    ELSE IF r.Body.form = "unreadable" THEN ReadError
    ELSE LET u == UnmarshalErrorResponse(r.Body)
             errResp == u.val
         IN  IF u.err # Nil THEN u.err
             ELSE IF errResp.Status # 0 /\ errResp.Status \in DOMAIN legacyErrs
                  THEN Errorf(legacyErrs[errResp.Status], errResp)
             ELSE IF errResp.Value.Err \in DOMAIN errs
                  THEN Errorf(errs[errResp.Value.Err], errResp)
             ELSE errResp

checkCoerceUnknown(r) ==
    IF IsSuccess(r.StatusCode) THEN Nil
    ELSE IF r.Body.form = "unreadable" THEN ReadError
    ELSE LET u == UnmarshalErrorResponse(r.Body)
             errResp == u.val
         IN  IF u.err # Nil THEN u.err
             ELSE IF errResp.Value.Err # ""
                  THEN IF errResp.Value.Err \in DOMAIN errs
                       THEN Errorf(errs[errResp.Value.Err], errResp)
                       ELSE Errorf(ErrorUnknownError, errResp)
             ELSE IF errResp.Status # 0 /\ errResp.Status \in DOMAIN legacyErrs
                  THEN Errorf(legacyErrs[errResp.Status], errResp)
             ELSE IF errResp.Status # 0
                  THEN Errorf(ErrorUnknownError, errResp)
             ELSE errResp

check(r) ==
    IF IsSuccess(r.StatusCode) THEN Nil
    ELSE IF r.Body.form = "unreadable" THEN ReadError
    ELSE LET u == UnmarshalErrorResponse(r.Body)
             errResp == u.val
         IN  IF u.err # Nil THEN u.err
             ELSE IF errResp.Value.Err # ""
                  THEN IF errResp.Value.Err \in DOMAIN errs
                       THEN Errorf(errs[errResp.Value.Err], errResp)
                       ELSE errResp
             ELSE IF errResp.Status # 0 /\ errResp.Status \in DOMAIN legacyErrs
                  THEN Errorf(legacyErrs[errResp.Status], errResp)
             ELSE errResp

NotChecked == [type |-> "notChecked"]

(* the error slot of a call that panicked instead of returning             *)
NoReturn == [type |-> "noReturn"]

(* func safeclose(c io.Closer): log.Panic when Close fails                 *)
safeclose(closeFails, out) ==
    IF closeFails
    THEN [out EXCEPT !.err = NoReturn, !.closed = TRUE, !.panicked = TRUE]
    ELSE [out EXCEPT !.closed = TRUE]

(* func (c *Client) do(ctx, req, v) error.  ctx is the state of the        *)
(* context when the network attempt finished, ok whether c.client.Do gave  *)
(* a response, r that response, closeFails whether resp.Body.Close fails.  *)
doCloseOnSuccessOnly(ctx, ok, r, closeFails, sink) ==
    LET out == [err |-> Nil, v |-> sink, checkErr |-> NotChecked,
                closed |-> FALSE, panicked |-> FALSE]
    IN  IF ~ok
        THEN IF ctx # "live" THEN [out EXCEPT !.err = CtxErr(ctx)]
             ELSE [out EXCEPT !.err = NetError]
        ELSE LET ce == check(r)
                 d == Decode(r.Body, sink)
             IN  IF ce # Nil THEN [out EXCEPT !.err = ce, !.checkErr = ce]
                 ELSE safeclose(closeFails,
                   IF sink = NilSink THEN [out EXCEPT !.checkErr = ce]
                   ELSE IF d.err = EOF
                        THEN [out EXCEPT !.checkErr = ce, !.v = d.v]
                   ELSE [out EXCEPT !.checkErr = ce, !.err = d.err,
                                    !.v = d.v])

doReturnEOF(ctx, ok, r, closeFails, sink) ==
    LET out == [err |-> Nil, v |-> sink, checkErr |-> NotChecked,
                closed |-> FALSE, panicked |-> FALSE]
    IN  IF ~ok
        THEN IF ctx # "live" THEN [out EXCEPT !.err = CtxErr(ctx)]
             ELSE [out EXCEPT !.err = NetError]
        ELSE LET ce == check(r)
                 d == Decode(r.Body, sink)
             IN  IF ce # Nil THEN safeclose(closeFails, [out EXCEPT !.err = ce, !.checkErr = ce])
                 ELSE safeclose(closeFails,
                   IF sink = NilSink THEN [out EXCEPT !.checkErr = ce]
                   ELSE IF d.err = EOF
                        THEN [out EXCEPT !.checkErr = ce, !.err = EOF, !.v = d.v]
                   ELSE [out EXCEPT !.checkErr = ce, !.err = d.err,
                                    !.v = d.v])

doDropDecodeError(ctx, ok, r, closeFails, sink) ==
    LET out == [err |-> Nil, v |-> sink, checkErr |-> NotChecked,
                closed |-> FALSE, panicked |-> FALSE]
    IN  IF ~ok
        THEN IF ctx # "live" THEN [out EXCEPT !.err = CtxErr(ctx)]
             ELSE [out EXCEPT !.err = NetError]
        ELSE LET ce == check(r)
                 d == Decode(r.Body, sink)
             IN  IF ce # Nil THEN safeclose(closeFails, [out EXCEPT !.err = ce, !.checkErr = ce])
                 ELSE safeclose(closeFails,
                   IF sink = NilSink THEN [out EXCEPT !.checkErr = ce]
                   ELSE IF d.err = EOF
                        THEN [out EXCEPT !.checkErr = ce, !.v = d.v]
                   ELSE [out EXCEPT !.checkErr = ce, !.v = d.v])

doRawErrorFirst(ctx, ok, r, closeFails, sink) ==
    LET out == [err |-> Nil, v |-> sink, checkErr |-> NotChecked,
                closed |-> FALSE, panicked |-> FALSE]
    IN  IF ~ok
        THEN [out EXCEPT !.err = NetError]
        ELSE LET ce == check(r)
                 d == Decode(r.Body, sink)
             IN  safeclose(closeFails,
                   IF ce # Nil THEN [out EXCEPT !.err = ce, !.checkErr = ce]
                   ELSE IF sink = NilSink THEN [out EXCEPT !.checkErr = ce]
                   ELSE IF d.err = EOF
                        THEN [out EXCEPT !.checkErr = ce, !.v = d.v]
                   ELSE [out EXCEPT !.checkErr = ce, !.err = d.err,
                                    !.v = d.v])

do(ctx, ok, r, closeFails, sink) ==
    LET out == [err |-> Nil, v |-> sink, checkErr |-> NotChecked,
                closed |-> FALSE, panicked |-> FALSE]
    IN  IF ~ok
        THEN IF ctx # "live" THEN [out EXCEPT !.err = CtxErr(ctx)]
             ELSE [out EXCEPT !.err = NetError]
        ELSE LET ce == check(r)
                 d == Decode(r.Body, sink)
             IN  safeclose(closeFails,
                   IF ce # Nil THEN [out EXCEPT !.err = ce, !.checkErr = ce]
                   ELSE IF sink = NilSink THEN [out EXCEPT !.checkErr = ce]
                   ELSE IF d.err = EOF
                        THEN [out EXCEPT !.checkErr = ce, !.v = d.v]
                   ELSE [out EXCEPT !.checkErr = ce, !.err = d.err,
                                    !.v = d.v])

----------------------------------------------------------------------------
(* One call of do.  The inputs of the call are drawn in InitDo: the state  *)
(* of ctx, whether the network attempt gave a response and which, whether  *)
(* closing its body fails, and the caller's sink.                          *)

CtxStates == {"live", "Canceled", "DeadlineExceeded"}

PollIdle ==
    /\ pc = "idle" /\ op = "none" /\ ival = 0 /\ maxWait = 0
    /\ ctxDone = "live" /\ ctxAt = "none"
    /\ now = 0 /\ start = 0 /\ res = NilSink
    /\ attempts = 0 /\ sleeps = 0 /\ lastErr = Nil /\ satisfied = 0
    /\ ret = NoReturn

(* no request built, no value returned                                     *)
NoResult == [ID |-> "none", Reference |-> "none"]

ReqIdle == reqBody = "none" /\ bodyAtSend = "none" /\ result = NoResult

(* a nil Session pointer, no Client                                         *)
NilSession == [ID |-> "nil", URL |-> <<"nil">>]
NoClient == [url |-> <<"nil">>]

(* no caller, nothing shared                                               *)
ConcIdle ==
    /\ cpc = <<>> /\ cop = <<>> /\ cnet = <<>> /\ cerr = <<>>
    /\ csink = <<>> /\ cret = <<>> /\ shared = <<>>
    /\ crashed = FALSE /\ overlap = FALSE

ScriptIdle ==
    /\ scriptPc = "idle" /\ scriptEntries = <<>>
    /\ scriptArgs = <<>> /\ scriptOut = <<>>

ClientIdle ==
    /\ sess = NilSession /\ sess0 = NilSession /\ client = NoClient
    /\ newErr = NoReturn /\ reqURL = <<>> /\ cmds = 0 /\ cmdOp = "none"

InitDo ==
    /\ called = FALSE
    /\ ctxState \in CtxStates
    /\ netOK \in BOOLEAN
    /\ IF netOK
       THEN /\ resp \in {Response(c, b) : c \in StatusCodes, b \in Bodies}
            /\ closeErr \in BOOLEAN
       ELSE /\ resp = NoResponse
            /\ closeErr = FALSE
    /\ v0 \in Sinks
    /\ v = v0
    /\ checkErr = NotChecked
    /\ err = NoReturn
    /\ bodyClosed = FALSE
    /\ panicked = FALSE
    /\ PollIdle
    /\ ReqIdle
    /\ ScriptIdle
    /\ ConcIdle
    /\ ClientIdle

DoCall ==
    /\ ~called
    /\ LET out == do(ctxState, netOK, resp, closeErr, v0)
       IN  /\ err' = out.err
           /\ v' = out.v
           /\ checkErr' = out.checkErr
           /\ bodyClosed' = out.closed
           /\ panicked' = out.panicked
    /\ called' = TRUE
    /\ UNCHANGED <<ctxState, netOK, resp, v0, closeErr>>
    /\ UNCHANGED notDo

NextDo == DoCall

SpecDo == InitDo /\ [][NextDo]_vars

----------------------------------------------------------------------------
(* The polling operations ElementWaitForUndefined, ElementWaitForText,     *)
(* ElementWaitForEnabled and ElementWaitForDisplayed.  Time is counted in  *)
(* ticks; an attempt takes 0..MaxLatency ticks and a sleep lasts its       *)
(* interval plus 0..MaxOversleep ticks.                                    *)

MaxInterval == 3
MaxWaitTime == 4
MaxLatency == 1
MaxOversleep == 1
MaxClock == 1

WaitOps == {"ElementWaitForUndefined", "ElementWaitForText",
            "ElementWaitForEnabled", "ElementWaitForDisplayed"}

(* e.Reference: empty, usable, or one url.Parse rejects in a route         *)
References == {"", "ref-1", "%zz"}

(* what a server answers to one attempt                                    *)
PollResponses ==
    {Response(200, BodyJSON(val, 0)) :
        val \in {ValueBool(TRUE), ValueBool(FALSE), ValueString(""),
                 ValueString("text"),
                 ValueMap([k \in {WebElementIDW3C} |-> "ref-1"])}}
    \cup {Response(200, BodyEmpty), Response(500, BodyMalformed)}
    \cup {Response(404, BodyJSON(ValueObject(d[1], "Unable to locate element",
                                             ""), d[2])) :
            d \in {<<"no such element", 0>>, <<"", 7>>,
                   <<"stale element reference", 0>>,
                   <<"detached shadow root", 0>>}}

(* errors.New("element is empty")                                          *)
ErrorElementIsEmpty == [type |-> "errorString", id |-> "element is empty"]

(* the error of url.Parse(path) in prepare                                 *)
ParseError == [type |-> "url"]

(* fmt.Errorf("timeout after %v", elapsed)                                 *)
TimeoutError(elapsed) == [type |-> "timeout", elapsed |-> elapsed]

(* a panic that left the operation                                         *)
Panic == [type |-> "panic"]

(* func (c *Client) prepare: url.Parse(path) fails on a bad escape         *)
prepare(ref) == IF ref = "%zz" THEN ParseError ELSE Nil

(* res := new(elementResponse) | new(stringValue) | new(boolValue)         *)
NewSink(o) ==
    IF o = "ElementWaitForUndefined" THEN elementResponse(EmptyMap)
    ELSE IF o = "ElementWaitForText" THEN stringValue("")
    ELSE boolValue(FALSE)

(* req.Body after prepare: the bytes.Buffer b of ElementWaitForUndefined,  *)
(* nil for the GET polls                                                   *)
NewBody(o) == IF o = "ElementWaitForUndefined" THEN "unread" ELSE "none"

(* sending reads the buffer behind req.Body to its end; nothing refills it *)
Drain(b) == IF b = "unread" THEN "drained" ELSE b

(* time.Since(start)                                                       *)
SinceEpoch(n, s) == n

Since(n, s) == n - s

(* elapsed > t                                                             *)
ExpiredAtLimit(elapsed, t) == elapsed >= t

Expired(elapsed, t) == elapsed > t

(* err != nil && errors.Is(err, ErrorNoSuchElement) in                     *)
(* ElementWaitForUndefined: the absence the poll waits for                 *)
AbsentOnAnyError(o, e) ==
    /\ o = "ElementWaitForUndefined"
    /\ e # Nil

Absent(o, e) ==
    /\ o = "ElementWaitForUndefined"
    /\ e # Nil
    /\ Is(e, ErrorNoSuchElement)

(* if err != nil { return err }                                            *)
FatalUnlessNotFound(o, e) == e # Nil /\ ~Is(e, ErrorNoSuchElement)

Fatal(o, e) == e # Nil

(* res.Value != "" | res.Value == true                                     *)
Met(o, sink) ==
    IF o = "ElementWaitForText" THEN sink.Value # ""
    ELSE IF o \in {"ElementWaitForEnabled", "ElementWaitForDisplayed"}
         THEN sink.Value = TRUE
    ELSE FALSE

DoIdle ==
    /\ called = FALSE /\ ctxState = "live" /\ netOK = FALSE
    /\ resp = NoResponse /\ v0 = NilSink /\ v = NilSink
    /\ checkErr = NotChecked /\ err = NoReturn /\ bodyClosed = FALSE
    /\ closeErr = FALSE /\ panicked = FALSE

InitPoll ==
    /\ pc = "idle" /\ op = "none" /\ ival = 0 /\ maxWait = 0
    /\ ctxDone \in {"live", "Canceled"}
    /\ ctxAt = (IF ctxDone = "live" THEN "none" ELSE "idle")
    /\ now \in 0..MaxClock
    /\ start = 0 /\ res = NilSink
    /\ attempts = 0 /\ sleeps = 0 /\ lastErr = Nil /\ satisfied = 0
    /\ ret = NoReturn
    /\ ReqIdle
    /\ ScriptIdle
    /\ ConcIdle
    /\ ClientIdle
    /\ DoIdle

(* the operation up to the loop: argument check, prepare, new sink, start  *)
PollStartWithDelay(o, ref, i, t) ==
    /\ pc = "idle"
    /\ op' = o /\ ival' = i /\ maxWait' = t
    /\ IF o # "ElementWaitForUndefined" /\ ref = ""
       THEN /\ pc' = "done" /\ ret' = ErrorElementIsEmpty
            /\ UNCHANGED <<start, res, reqBody>>
       ELSE IF prepare(ref) # Nil
       THEN /\ pc' = "done" /\ ret' = prepare(ref)
            /\ UNCHANGED <<start, res, reqBody>>
       ELSE /\ pc' = "sleep" /\ ret' = NoReturn
            /\ res' = NewSink(o)
            /\ reqBody' = NewBody(o)
            /\ start' = now
    /\ UNCHANGED <<ctxDone, now, attempts, sleeps, lastErr, satisfied>>
    /\ UNCHANGED <<bodyAtSend, result>>
    /\ UNCHANGED ctxAt
    /\ UNCHANGED notPoll

PollStart(o, ref, i, t) ==
    /\ pc = "idle"
    /\ op' = o /\ ival' = i /\ maxWait' = t
    /\ IF o # "ElementWaitForUndefined" /\ ref = ""
       THEN /\ pc' = "done" /\ ret' = ErrorElementIsEmpty
            /\ UNCHANGED <<start, res, reqBody>>
       ELSE IF prepare(ref) # Nil
       THEN /\ pc' = "done" /\ ret' = prepare(ref)
            /\ UNCHANGED <<start, res, reqBody>>
       ELSE /\ pc' = "loop" /\ ret' = NoReturn
            /\ res' = NewSink(o)
            /\ reqBody' = NewBody(o)
            /\ start' = now
    /\ UNCHANGED <<ctxDone, now, attempts, sleeps, lastErr, satisfied>>
    /\ UNCHANGED <<bodyAtSend, result>>
    /\ UNCHANGED ctxAt
    /\ UNCHANGED notPoll

(* one iteration of the loop up to time.Sleep: c.do, the tests of its      *)
(* result and the elapsed-time test.  A done ctx makes the network attempt *)
(* fail; d is the time the iteration takes.                                *)
PollAttemptDeadlineFirst(ok, r, closeFails, d) ==
    /\ pc = "loop"
    /\ ctxDone # "live" => ~ok
    /\ LET out == do(ctxDone, ok, r, closeFails /\ ok, res)
           e == out.err
           elapsed == Since(now + d, start)
       IN  /\ attempts' = attempts + 1
           /\ now' = now + d
           /\ res' = out.v
           /\ lastErr' = e
           /\ IF out.panicked
              THEN pc' = "done" /\ ret' = Panic /\ UNCHANGED satisfied
              ELSE IF Absent(op, e)
              THEN pc' = "done" /\ ret' = Nil /\ satisfied' = attempts + 1
              ELSE IF Fatal(op, e)
              THEN pc' = "done" /\ ret' = e /\ UNCHANGED satisfied
              ELSE IF Expired(elapsed, maxWait)
              THEN /\ pc' = "done" /\ ret' = TimeoutError(elapsed)
                   /\ UNCHANGED satisfied
              ELSE IF Met(op, out.v)
              THEN pc' = "done" /\ ret' = Nil /\ satisfied' = attempts + 1
              ELSE pc' = "sleep" /\ UNCHANGED <<ret, satisfied>>
    /\ bodyAtSend' = reqBody
    /\ reqBody' = Drain(reqBody)
    /\ UNCHANGED <<op, ival, maxWait, ctxDone, start, sleeps, result>>
    /\ UNCHANGED ctxAt
    /\ UNCHANGED notPoll

PollAttempt(ok, r, closeFails, d) ==
    /\ pc = "loop"
    /\ ctxDone # "live" => ~ok
    /\ LET out == do(ctxDone, ok, r, closeFails /\ ok, res)
           e == out.err
           elapsed == Since(now + d, start)
       IN  /\ attempts' = attempts + 1
           /\ now' = now + d
           /\ res' = out.v
           /\ lastErr' = e
           /\ IF out.panicked
              THEN pc' = "done" /\ ret' = Panic /\ UNCHANGED satisfied
              ELSE IF Absent(op, e)
              THEN pc' = "done" /\ ret' = Nil /\ satisfied' = attempts + 1
              ELSE IF Fatal(op, e)
              THEN pc' = "done" /\ ret' = e /\ UNCHANGED satisfied
              ELSE IF Met(op, out.v)
              THEN pc' = "done" /\ ret' = Nil /\ satisfied' = attempts + 1
              ELSE IF Expired(elapsed, maxWait)
              THEN /\ pc' = "done" /\ ret' = TimeoutError(elapsed)
                   /\ UNCHANGED satisfied
              ELSE pc' = "sleep" /\ UNCHANGED <<ret, satisfied>>
    /\ bodyAtSend' = reqBody
    /\ reqBody' = Drain(reqBody)
    /\ UNCHANGED <<op, ival, maxWait, ctxDone, start, sleeps, result>>
    /\ UNCHANGED ctxAt
    /\ UNCHANGED notPoll

(* time.Sleep(i): at least i, and not interrupted by ctx                   *)
PollSleepInterruptible(over) ==
    /\ pc = "sleep"
    /\ now' = (IF ctxDone = "live" THEN now + ival + over ELSE now)
    /\ sleeps' = sleeps + 1
    /\ pc' = "loop"
    /\ UNCHANGED <<op, ival, maxWait, ctxDone, start, res, attempts, lastErr,
                   satisfied, ret>>
    /\ UNCHANGED reqVars
    /\ UNCHANGED ctxAt
    /\ UNCHANGED notPoll

PollSleepStuck(over) ==
    /\ pc = "sleep"
    /\ UNCHANGED vars

PollSleep(over) ==
    /\ pc = "sleep"
    /\ now' = now + ival + over
    /\ sleeps' = sleeps + 1
    /\ pc' = "loop"
    /\ UNCHANGED <<op, ival, maxWait, ctxDone, start, res, attempts, lastErr,
                   satisfied, ret>>
    /\ UNCHANGED reqVars
    /\ UNCHANGED ctxAt
    /\ UNCHANGED notPoll

(* the caller cancels ctx, or its deadline passes, while the poll runs     *)
CtxDone(c) ==
    /\ pc \in {"loop", "sleep"}
    /\ ctxDone = "live"
    /\ ctxDone' = c
    /\ ctxAt' = pc
    /\ UNCHANGED <<pc, op, ival, maxWait, now, start, res, attempts, sleeps,
                   lastErr, satisfied, ret>>
    /\ UNCHANGED reqVars
    /\ UNCHANGED notPoll

NextPoll ==
    \/ \E o \in WaitOps, ref \in References,
          i \in 1..MaxInterval, t \in 0..MaxWaitTime : PollStart(o, ref, i, t)
    \/ \E ok \in BOOLEAN, r \in PollResponses, closeFails \in BOOLEAN,
          d \in 0..MaxLatency : PollAttempt(ok, r, closeFails, d)
    \/ \E over \in 0..MaxOversleep : PollSleep(over)
    \/ \E c \in {"Canceled", "DeadlineExceeded"} : CtxDone(c)

SpecPoll == InitPoll /\ [][NextPoll]_vars

(* the goroutine that runs the poll keeps running: an attempt whose        *)
(* network call returns is made, a sleep that is due ends                  *)
AttemptReturns ==
    \E ok \in BOOLEAN, r \in PollResponses, closeFails \in BOOLEAN,
       d \in 0..MaxLatency : PollAttempt(ok, r, closeFails, d)

SleepEnds == \E over \in 0..MaxOversleep : PollSleep(over)

SpecPollFair ==
    SpecPoll /\ WF_vars(AttemptReturns) /\ WF_vars(SleepEnds)

----------------------------------------------------------------------------
(* The commands that are no poll: ElementClick, ElementSendKeys in its     *)
(* current form (element.go:1029), ElementSendKeys and                     *)
(* ElementSendKeysLegacy in their earlier form (element.go:308, 344),      *)
(* ElementFind and ElementFindFrom.                                        *)

CmdOps == {"ElementClick", "ElementSendKeys", "ElementSendKeysEarlier",
           "ElementSendKeysLegacyEarlier", "ElementFind", "ElementFindFrom",
           "ElementsFind", "ElementsFindFrom"}

(* the commands that end by resolving an element                           *)
FindOps == {"ElementFind", "ElementFindFrom"}

(* the commands that end by resolving a list of elements                   *)
FindAllOps == {"ElementsFind", "ElementsFindFrom"}

(* the earlier commands that call c.do a second time                       *)
ResendOps == {"ElementSendKeysEarlier", "ElementSendKeysLegacyEarlier"}

(* keys of ElementSendKeys, v of ElementFind                               *)
Args == {"", "abc"}

(* by of ElementFind                                                       *)
Locators == {"", "css selector"}

(* the maps a server sends as the value of an element lookup               *)
ElementMaps ==
    {EmptyMap,
     [k \in {WebElementIDW3C} |-> "ref-w"],
     [k \in {WebElementIDLegacy} |-> "ref-l"],
     [k \in {WebElementIDW3C, WebElementIDLegacy} |->
         IF k = WebElementIDW3C THEN "ref-w" ELSE "ref-l"],
     [k \in {"shadow-6066-11e4-a52e-4f735466cecf"} |-> "ref-s"],
     [k \in {WebElementIDLegacy, "shadow-6066-11e4-a52e-4f735466cecf"} |->
         IF k = WebElementIDLegacy THEN "ref-l" ELSE "ref-s"]}

(* the lists a server sends as the value of a lookup of several elements   *)
MaxElements == 2

ElementLists == UNION {[1..n -> ElementMaps] : n \in 0..MaxElements}

CmdResponses ==
    PollResponses
    \cup {Response(200, BodyJSON(ValueMap(m), 0)) : m \in ElementMaps}
    \cup {Response(200, BodyJSON(ValueList(l), 0)) : l \in ElementLists}
    \cup {Response(200, BodyJSON(ValueAbsent, 0)),
          Response(200, BodyMalformed)}

(* type WebElement struct; WebElement{} is the zero value                  *)
WebElement(id, ref) == [ID |-> id, Reference |-> ref]

(* errors.New of the argument checks                                       *)
ErrorsNew(text) == [type |-> "errorString", id |-> text]

(* the argument checks at the head of each command                         *)
Validate(o, ref, by, arg) ==
    IF o \notin {"ElementFind", "ElementsFind"} /\ ref = ""
    THEN IF o \in ResendOps THEN ErrorsNew("element ID is empty")
         ELSE ErrorsNew("element is empty")
    ELSE IF o \in FindOps \cup FindAllOps
    THEN IF by = "" THEN ErrorsNew("locator strategy is empty")
         ELSE IF arg = "" THEN ErrorsNew("value is empty")
         ELSE Nil
    ELSE IF o # "ElementClick" /\ arg = "" THEN ErrorsNew("keys are empty")
    ELSE Nil

(* the routes of ElementFind and ElementsFind hold no element reference    *)
CmdPrepare(o, ref) ==
    IF o \in {"ElementFind", "ElementsFind"} THEN Nil ELSE prepare(ref)

(* res := new(elementResponse) | new(elementsResponse), nil for a click    *)
CmdSink(o) ==
    IF o = "ElementClick" THEN NilSink
    ELSE IF o \in ResendOps \cup FindAllOps THEN elementsResponse(<<>>)
    ELSE elementResponse(EmptyMap)

(* c.prepare(http.MethodPost, route, b | nil)                              *)
CmdBody(o) == IF o = "ElementClick" THEN "none" ELSE "unread"

(* the end of ElementFind: the W3C key first, then the legacy key          *)
ResolveLegacyFirst(m) ==
    IF WebElementIDLegacy \in DOMAIN m
    THEN [elem |-> WebElement(WebElementIDLegacy, m[WebElementIDLegacy]),
          err |-> Nil]
    ELSE IF WebElementIDW3C \in DOMAIN m
    THEN [elem |-> WebElement(WebElementIDW3C, m[WebElementIDW3C]),
          err |-> Nil]
    ELSE [elem |-> WebElement("", ""), err |-> Sentinel(ErrorNoSuchElement)]

Resolve(m) ==
    IF WebElementIDW3C \in DOMAIN m
    THEN [elem |-> WebElement(WebElementIDW3C, m[WebElementIDW3C]),
          err |-> Nil]
    ELSE IF WebElementIDLegacy \in DOMAIN m
    THEN [elem |-> WebElement(WebElementIDLegacy, m[WebElementIDLegacy]),
          err |-> Nil]
    ELSE [elem |-> WebElement("", ""), err |-> Sentinel(ErrorNoSuchElement)]

(* the end of ElementsFind: no entry is ErrorNoSuchElement; otherwise one   *)
(* element per entry, the zero WebElement for an entry with neither key    *)
ResolveAllStrict(l) ==
    IF Len(l) = 0
    THEN [elems |-> <<>>, err |-> Sentinel(ErrorNoSuchElement)]
    ELSE IF \E i \in 1..Len(l) : Resolve(l[i]).err # Nil
    THEN [elems |-> <<>>, err |-> Sentinel(ErrorNoSuchElement)]
    ELSE [elems |-> [i \in 1..Len(l) |-> Resolve(l[i]).elem], err |-> Nil]

ResolveAll(l) ==
    IF Len(l) = 0
    THEN [elems |-> <<>>, err |-> Sentinel(ErrorNoSuchElement)]
    ELSE [elems |->
            [i \in 1..Len(l) |->
                IF WebElementIDW3C \in DOMAIN l[i]
                THEN WebElement(WebElementIDW3C, l[i][WebElementIDW3C])
                ELSE IF WebElementIDLegacy \in DOMAIN l[i]
                THEN WebElement(WebElementIDLegacy, l[i][WebElementIDLegacy])
                ELSE WebElement("", "")],
          err |-> Nil]

(* what a command returns beside an error: WebElement{}, nil, or nothing   *)
ZeroResult(o) ==
    IF o \in FindOps THEN WebElement("", "")
    ELSE IF o \in FindAllOps THEN <<>>
    ELSE NoResult

InitCmd ==
    /\ pc = "idle" /\ op = "none" /\ ival = 0 /\ maxWait = 0
    /\ ctxDone \in {"live", "Canceled"}
    /\ ctxAt = (IF ctxDone = "live" THEN "none" ELSE "idle")
    /\ now = 0 /\ start = 0 /\ res = NilSink
    /\ attempts = 0 /\ sleeps = 0 /\ lastErr = Nil /\ satisfied = 0
    /\ ret = NoReturn
    /\ ReqIdle
    /\ ScriptIdle
    /\ ConcIdle
    /\ ClientIdle
    /\ DoIdle

(* the command up to its c.do: argument checks, prepare, new sink          *)
CmdStart(o, ref, by, arg) ==
    /\ pc = "idle"
    /\ op' = o
    /\ IF Validate(o, ref, by, arg) # Nil
       THEN /\ pc' = "done" /\ ret' = Validate(o, ref, by, arg)
            /\ result' = ZeroResult(o)
            /\ UNCHANGED <<res, reqBody>>
       ELSE IF CmdPrepare(o, ref) # Nil
       THEN /\ pc' = "done" /\ ret' = CmdPrepare(o, ref)
            /\ result' = ZeroResult(o)
            /\ UNCHANGED <<res, reqBody>>
       ELSE /\ pc' = "send" /\ ret' = NoReturn
            /\ res' = CmdSink(o)
            /\ reqBody' = CmdBody(o)
            /\ UNCHANGED result
    /\ UNCHANGED <<ival, maxWait, ctxDone, now, start, attempts, sleeps,
                   lastErr, satisfied, bodyAtSend>>
    /\ UNCHANGED ctxAt
    /\ UNCHANGED notPoll

(* err = c.do(ctx, req, res) and what the command does with the result     *)
CmdDo(ok, r, closeFails) ==
    /\ pc = "send"
    /\ ctxDone # "live" => ~ok
    /\ LET out == do(ctxDone, ok, r, closeFails /\ ok, res)
           e == out.err
       IN  /\ attempts' = attempts + 1
           /\ res' = out.v
           /\ lastErr' = e
           /\ IF out.panicked
              THEN pc' = "done" /\ ret' = Panic /\ UNCHANGED result
              ELSE IF e # Nil
              THEN /\ pc' = "done" /\ ret' = e
                   /\ result' = ZeroResult(op)
              ELSE IF op \in ResendOps
              THEN pc' = "resend" /\ UNCHANGED <<ret, result>>
              ELSE IF op \in FindOps
              THEN /\ pc' = "done"
                   /\ ret' = Resolve(out.v.Value).err
                   /\ result' = Resolve(out.v.Value).elem
              ELSE IF op \in FindAllOps
              THEN /\ pc' = "done"
                   /\ ret' = ResolveAll(out.v.Value).err
                   /\ result' = ResolveAll(out.v.Value).elems
              ELSE pc' = "done" /\ ret' = Nil /\ UNCHANGED result
    /\ bodyAtSend' = reqBody
    /\ reqBody' = Drain(reqBody)
    /\ UNCHANGED <<op, ival, maxWait, ctxDone, now, start, sleeps, satisfied>>
    /\ UNCHANGED ctxAt
    /\ UNCHANGED notPoll

(* return c.do(ctx, req, nil) at the end of the earlier ElementSendKeys    *)
CmdDoAgain(ok, r, closeFails) ==
    /\ pc = "resend"
    /\ ctxDone # "live" => ~ok
    /\ LET out == do(ctxDone, ok, r, closeFails /\ ok, NilSink)
       IN  /\ attempts' = attempts + 1
           /\ lastErr' = out.err
           /\ pc' = "done"
           /\ ret' = (IF out.panicked THEN Panic ELSE out.err)
    /\ bodyAtSend' = reqBody
    /\ reqBody' = Drain(reqBody)
    /\ UNCHANGED <<op, ival, maxWait, ctxDone, now, start, res, sleeps,
                   satisfied, result>>
    /\ UNCHANGED ctxAt
    /\ UNCHANGED notPoll

NextCmd ==
    \/ \E o \in CmdOps, ref \in References, by \in Locators, arg \in Args :
          CmdStart(o, ref, by, arg)
    \/ \E ok \in BOOLEAN, r \in CmdResponses, closeFails \in BOOLEAN :
          CmdDo(ok, r, closeFails)
    \/ \E ok \in BOOLEAN, r \in CmdResponses, closeFails \in BOOLEAN :
          CmdDoAgain(ok, r, closeFails)

SpecCmd == InitCmd /\ [][NextCmd]_vars

----------------------------------------------------------------------------
(* New and the Session it is given.  A URL is the sequence of its pieces:  *)
(* "http://host", "/", a path segment "wd", and "%zz", a piece url.Parse   *)
(* rejects as a bad escape.                                                *)

MaxURLTail == 3
MaxCommands == 2

URLTails == UNION {[1..n -> {"/", "wd", "%zz"}] : n \in 0..MaxURLTail}

URLs == {<<>>} \cup {<<"http://host">> \o t : t \in URLTails}

SessionIDs == {"abc", "xyz"}

(* type Session struct                                                     *)
Session(id, u) == [ID |-> id, URL |-> u]

(* strings.TrimSuffix(s, "/")                                              *)
TrimSuffix(u) ==
    IF Len(u) > 0 /\ u[Len(u)] = "/" THEN SubSeq(u, 1, Len(u) - 1) ELSE u

(* url.Parse(s.URL): fails on a bad escape                                 *)
urlParse(u) == IF \E n \in DOMAIN u : u[n] = "%zz" THEN ParseError ELSE Nil

(* func New: its argument s is modelled as the struct behind the pointer;  *)
(* the result holds the Client, the error and the struct as New leaves     *)
(* it.  The Client keeps the pointer, not a copy of the struct.            *)
NewNoURLCheck(s) ==
    IF s = NilSession
    THEN [client |-> NoClient, err |-> ErrorsNew("session is empty"), s |-> s]
    ELSE LET u == TrimSuffix(s.URL) \o <<"/">>
             s1 == [s EXCEPT !.URL = u]
         IN  IF urlParse(u) # Nil
             THEN [client |-> NoClient, err |-> urlParse(u), s |-> s1]
             ELSE [client |-> [url |-> u], err |-> Nil, s |-> s1]

New(s) ==
    IF s = NilSession
    THEN [client |-> NoClient, err |-> ErrorsNew("session is empty"), s |-> s]
    ELSE IF s.URL = <<>>
    THEN [client |-> NoClient, err |-> ErrorsNew("URL is empty"), s |-> s]
    ELSE LET u == TrimSuffix(s.URL) \o <<"/">>
             s1 == [s EXCEPT !.URL = u]
         IN  IF urlParse(u) # Nil
             THEN [client |-> NoClient, err |-> urlParse(u), s |-> s1]
             ELSE [client |-> [url |-> u], err |-> Nil, s |-> s1]

(* fmt.Sprintf("session/%s/element", c.session.ID): c.session is the       *)
(* caller's pointer, so the ID is read from the caller's struct            *)
Route(id) == <<"session", "/", id, "/", "element">>

(* the index of the last "/" of u, 0 when it has none                      *)
LastSlash(u) ==
    IF \E n \in DOMAIN u : u[n] = "/"
    THEN CHOOSE n \in DOMAIN u :
            u[n] = "/" /\ \A m \in DOMAIN u : u[m] = "/" => m <= n
    ELSE 0

(* scheme and host of u: what stands before its first "/"                 *)
Authority(u) ==
    IF \E n \in DOMAIN u : u[n] = "/"
    THEN SubSeq(u, 1, (CHOOSE n \in DOMAIN u :
                          u[n] = "/" /\ \A m \in DOMAIN u : u[m] = "/" => n <= m)
                      - 1)
    ELSE u

(* the commands issued through the Client                                  *)
ClientOps == {"ElementFind", "SwitchToFrame", "SwitchToParentFrame"}

(* route := fmt.Sprintf(...) of each command                               *)
CommandRoute(o, id) ==
    IF o = "ElementFind" THEN Route(id)
    ELSE IF o = "SwitchToFrame" THEN <<"session", "/", id, "/", "frame">>
    ELSE <<"/", "session", "/", id, "/", "frame", "/", "parent">>

(* c.url.ResolveReference(p): a path p that begins with "/" replaces the   *)
(* whole path of the base; a relative path p replaces what follows the     *)
(* last "/" of the base                                                    *)
ResolveReference(base, p) ==
    IF Len(p) > 0 /\ p[1] = "/"
    THEN Authority(base) \o p
    ELSE SubSeq(base, 1, LastSlash(base)) \o p

InitNew ==
    /\ sess \in {NilSession} \cup {Session(id, u) : id \in SessionIDs, u \in URLs}
    /\ sess0 = sess
    /\ client = NoClient
    /\ newErr = NoReturn
    /\ reqURL = <<>>
    /\ cmds = 0
    /\ cmdOp = "none"
    /\ PollIdle
    /\ ReqIdle
    /\ ScriptIdle
    /\ ConcIdle
    /\ DoIdle

NewCall ==
    /\ newErr = NoReturn
    /\ client' = New(sess).client
    /\ newErr' = New(sess).err
    /\ sess' = New(sess).s
    /\ UNCHANGED <<sess0, reqURL, cmds, cmdOp>>
    /\ UNCHANGED notClient

(* the caller writes the ID of the Session it passed to New                *)
CallerSetsID(id) ==
    /\ client # NoClient
    /\ sess.ID # id
    /\ sess' = [sess EXCEPT !.ID = id]
    /\ UNCHANGED <<sess0, client, newErr, reqURL, cmds, cmdOp>>
    /\ UNCHANGED notClient

(* the caller writes the URL of the Session it passed to New               *)
CallerSetsURL(u) ==
    /\ client # NoClient
    /\ sess.URL # u
    /\ sess' = [sess EXCEPT !.URL = u]
    /\ UNCHANGED <<sess0, client, newErr, reqURL, cmds, cmdOp>>
    /\ UNCHANGED notClient

(* a command builds its request: route, then prepare                       *)
IssueCommand(o) ==
    /\ client # NoClient
    /\ cmds < MaxCommands
    /\ reqURL' = ResolveReference(client.url, CommandRoute(o, sess.ID))
    /\ cmds' = cmds + 1
    /\ cmdOp' = o
    /\ UNCHANGED <<sess, sess0, client, newErr>>
    /\ UNCHANGED notClient

NextNew ==
    \/ NewCall
    \/ \E id \in SessionIDs : CallerSetsID(id)
    \/ \E u \in {<<>>, <<"http://other", "/">>} : CallerSetsURL(u)
    \/ \E o \in ClientOps : IssueCommand(o)

SpecNew == InitNew /\ [][NextNew]_vars

----------------------------------------------------------------------------
(* Script arguments: elements a lookup returned, passed to PageScript.     *)

MaxArgs == 2

(* an entry of a lookup's response that resolves to an element             *)
EntryItems ==
    {[kind |-> "entry", m |-> m] :
        m \in {mm \in ElementMaps : Resolve(mm).err = Nil}}

(* arguments that are no WebElement value: a string, a number, and a       *)
(* pointer to a WebElement, which the type assertion does not match        *)
PlainItems ==
    {[kind |-> "string", s |-> "x"], [kind |-> "number", n |-> 1],
     [kind |-> "pointer", ID |-> WebElementIDW3C, Reference |-> "ref-w"]}

ScriptItems == EntryItems \cup PlainItems

(* e, isElem := a.(WebElement)                                             *)
IsWebElement(a) == DOMAIN a = {"ID", "Reference"}

(* func prepareScriptArguments(args []interface{}) []interface{}           *)
prepareScriptArgumentsW3C(args) ==
    [i \in 1..Len(args) |->
        IF IsWebElement(args[i])
        THEN [k \in {WebElementIDW3C} |-> args[i].Reference]
        ELSE args[i]]

prepareScriptArguments(args) ==
    [i \in 1..Len(args) |->
        IF IsWebElement(args[i])
        THEN [k \in {args[i].ID} |-> args[i].Reference]
        ELSE args[i]]

InitScript ==
    /\ scriptPc = "idle"
    /\ scriptEntries \in UNION {[1..n -> ScriptItems] : n \in 0..MaxArgs}
    /\ scriptArgs = <<>>
    /\ scriptOut = <<>>
    /\ PollIdle
    /\ ReqIdle
    /\ ClientIdle
    /\ ConcIdle
    /\ DoIdle

(* the caller's lookups: each entry is resolved as ElementFind does        *)
ResolveEntries ==
    /\ scriptPc = "idle"
    /\ scriptArgs' = [i \in 1..Len(scriptEntries) |->
                         IF scriptEntries[i].kind = "entry"
                         THEN Resolve(scriptEntries[i].m).elem
                         ELSE scriptEntries[i]]
    /\ scriptPc' = "resolved"
    /\ UNCHANGED <<scriptEntries, scriptOut>>
    /\ UNCHANGED notScript

(* PageScript up to r := &scriptRequest{..., Args: ...}                    *)
PageScript ==
    /\ scriptPc = "resolved"
    /\ scriptOut' = prepareScriptArguments(scriptArgs)
    /\ scriptPc' = "done"
    /\ UNCHANGED <<scriptEntries, scriptArgs>>
    /\ UNCHANGED notScript

NextScript == ResolveEntries \/ PageScript

SpecScript == InitScript /\ [][NextScript]_vars

----------------------------------------------------------------------------
(* Several callers run commands on one Client at the same time.  Each call *)
(* is three steps that interleave with the steps of the others: it builds  *)
(* its request and allocates its sink, it runs c.do, it reads its sink and *)
(* returns.                                                                *)

NumCallers == 2

Callers == 1..NumCallers

ConcOps == {"ElementFind", "SwitchToFrame"}

ConcResponses ==
    {Response(200, BodyJSON(ValueMap(m), 0)) :
        m \in {EmptyMap, [k \in {WebElementIDW3C} |-> "ref-w"],
               [k \in {WebElementIDLegacy} |-> "ref-l"]}}
    \cup {Response(404, BodyJSON(ValueObject("no such element", "", ""), 0))}

(* what the calls read and share: c.session, c.url, errs, legacyErrs       *)
SharedState ==
    [session |-> Session("abc", <<"http://host", "/">>),
     url |-> <<"http://host", "/">>,
     errs |-> errs,
     legacyErrs |-> legacyErrs]

NoNet == [ok |-> FALSE, r |-> NoResponse, closeFails |-> FALSE,
          target |-> <<>>]

NoReturnYet == [err |-> NoReturn, elem |-> NoResult]

(* res := new(elementResponse): the sink a call allocates is its own       *)
SinkShared(k) == 1

SinkOf(k) == k

(* v of c.do(ctx, req, v): the call's sink, nil for SwitchToFrame          *)
SinkArg(k, sinks) ==
    IF cop[k] = "ElementFind" THEN sinks[SinkOf(k)] ELSE NilSink

(* the end of a command after its c.do                                     *)
Finish(o, e, sink) ==
    IF e # Nil THEN [err |-> e, elem |-> ZeroResult(o)]
    ELSE IF o = "ElementFind"
    THEN [err |-> Resolve(sink.Value).err, elem |-> Resolve(sink.Value).elem]
    ELSE [err |-> Nil, elem |-> NoResult]

InitConc ==
    /\ cpc = [k \in Callers |-> "idle"]
    /\ cop = [k \in Callers |-> "none"]
    /\ cnet = [k \in Callers |-> NoNet]
    /\ cerr = [k \in Callers |-> NoReturn]
    /\ csink = [k \in Callers |-> NilSink]
    /\ cret = [k \in Callers |-> NoReturnYet]
    /\ shared = SharedState
    /\ crashed = FALSE
    /\ overlap = FALSE
    /\ PollIdle
    /\ ReqIdle
    /\ ClientIdle
    /\ ScriptIdle
    /\ DoIdle

(* the command up to c.do: route from c.session.ID, prepare from c.url,    *)
(* res := new(elementResponse)                                             *)
ConcStart(k, o) ==
    /\ ~crashed
    /\ cpc[k] = "idle"
    /\ cop' = [cop EXCEPT ![k] = o]
    /\ cnet' = [cnet EXCEPT ![k].target =
                  ResolveReference(shared.url,
                                   CommandRoute(o, shared.session.ID))]
    /\ csink' = (IF o = "ElementFind"
                 THEN [csink EXCEPT ![SinkOf(k)] = elementResponse(EmptyMap)]
                 ELSE csink)
    /\ cpc' = [cpc EXCEPT ![k] = "sent"]
    /\ UNCHANGED <<cerr, cret, shared, crashed, overlap>>
    /\ UNCHANGED notConc

(* err = c.do(ctx, req, res): check reads errs and legacyErrs, Decode      *)
(* writes the sink; a panic in safeclose ends the process                  *)
ConcDo(k, ok, r, closeFails) ==
    /\ ~crashed
    /\ cpc[k] = "sent"
    /\ LET out == do("live", ok, r, closeFails /\ ok, SinkArg(k, csink))
       IN  /\ cnet' = [cnet EXCEPT ![k].ok = ok,
                                   ![k].r = (IF ok THEN r ELSE NoResponse),
                                   ![k].closeFails = (closeFails /\ ok)]
           /\ cerr' = [cerr EXCEPT ![k] = out.err]
           /\ csink' = (IF cop[k] = "ElementFind"
                        THEN [csink EXCEPT ![SinkOf(k)] = out.v]
                        ELSE csink)
           /\ crashed' = out.panicked
           /\ IF out.panicked
              THEN /\ cpc' = [cpc EXCEPT ![k] = "done"]
                   /\ cret' = [cret EXCEPT ![k] = [err |-> Panic,
                                                   elem |-> NoResult]]
              ELSE /\ cpc' = [cpc EXCEPT ![k] = "decoded"]
                   /\ UNCHANGED cret
    /\ overlap' = (overlap \/ \E j \in Callers \ {k} : cpc[j] = "decoded")
    /\ UNCHANGED <<cop, shared>>
    /\ UNCHANGED notConc

(* the command after c.do: it reads its sink and returns                   *)
ConcReturn(k) ==
    /\ ~crashed
    /\ cpc[k] = "decoded"
    /\ cret' = [cret EXCEPT ![k] = Finish(cop[k], cerr[k], SinkArg(k, csink))]
    /\ cpc' = [cpc EXCEPT ![k] = "done"]
    /\ UNCHANGED <<cop, cnet, cerr, csink, shared, crashed, overlap>>
    /\ UNCHANGED notConc

NextConc ==
    \/ \E k \in Callers, o \in ConcOps : ConcStart(k, o)
    \/ \E k \in Callers, ok \in BOOLEAN, r \in ConcResponses,
          closeFails \in BOOLEAN : ConcDo(k, ok, r, closeFails)
    \/ \E k \in Callers : ConcReturn(k)

SpecConc == InitConc /\ [][NextConc]_vars

----------------------------------------------------------------------------
(* Properties of the response pipeline, checked under SpecDo.              *)

(* the call got a non-2xx response whose body is a JSON error envelope     *)
ErrorEnvelopeSeen ==
    /\ called /\ netOK
    /\ resp.StatusCode \notin 200..299
    /\ resp.Body.form = "json"
    /\ resp.Body.value.t = "object"

(* C1: a response is classified as success (check returns nil) if and      *)
(* only if its status is in 200..299; for every other status do never      *)
(* returns a nil error and the caller's sink keeps the value it had.       *)
C1_SuccessIff2xx ==
    (called /\ netOK) =>
        /\ (checkErr = Nil) <=> (resp.StatusCode \in 200..299)
        /\ resp.StatusCode \notin 200..299 => (err # Nil /\ v = v0)

C1_Witness ==
    /\ called /\ netOK /\ ~panicked
    /\ resp.StatusCode = 300
    /\ resp.Body \in ValueBodies
    /\ v0 = stringValue("old") /\ v = v0
    /\ err.type = "ErrorResponse"

(* C2: an error envelope whose error string is "no such element" makes     *)
(* check return an error of the kind ErrorNoSuchElement, whatever the      *)
(* message and the legacy status are.                                      *)
C2_NoSuchElementString ==
    (ErrorEnvelopeSeen /\ resp.Body.value.error = "no such element")
        => Is(checkErr, "ErrorNoSuchElement")

C2_Witness ==
    /\ ErrorEnvelopeSeen
    /\ resp.Body.value.error = "no such element"
    /\ resp.Body.value.message = "Unable to locate element"
    /\ resp.Body.status = 8
    /\ Is(checkErr, "ErrorNoSuchElement")

(* C3 as stated: an envelope with no recognized error string and legacy    *)
(* status 7 gives an error of the kind ErrorNoSuchElement.                 *)
C3_Original ==
    (/\ ErrorEnvelopeSeen
     /\ resp.Body.value.error \notin DOMAIN errs
     /\ resp.Body.status = 7)
        => Is(checkErr, "ErrorNoSuchElement")

(* C3: an envelope whose error string is empty (absent) and whose legacy   *)
(* status is 7 gives an error of the kind ErrorNoSuchElement, the kind     *)
(* the string "no such element" gives.                                     *)
C3_LegacyStatus7 ==
    (/\ ErrorEnvelopeSeen
     /\ resp.Body.value.error = ""
     /\ resp.Body.status = 7)
        => Is(checkErr, "ErrorNoSuchElement")

C3_Witness ==
    /\ ErrorEnvelopeSeen
    /\ resp.Body.value.error = ""
    /\ resp.Body.status = 7
    /\ resp.Body.value.message = "Unable to locate element"
    /\ Is(checkErr, "ErrorNoSuchElement")

(* C4: when the discriminant is in no table (an error string that is no    *)
(* key of errs, or an empty error string with a status that is 0 or no     *)
(* key of legacyErrs) check returns the ErrorResponse holding exactly the  *)
(* envelope received, and that error is of none of the sentinel kinds.     *)
C4_UnknownStaysGeneric ==
    (/\ ErrorEnvelopeSeen
     /\ \/ resp.Body.value.error \notin (DOMAIN errs \cup {""})
        \/ /\ resp.Body.value.error = ""
           /\ resp.Body.status \notin (DOMAIN legacyErrs \ {0}))
        => /\ checkErr.type = "ErrorResponse"
           /\ checkErr.Value.Err = resp.Body.value.error
           /\ checkErr.Value.Message = resp.Body.value.message
           /\ checkErr.Value.Stacktrace = resp.Body.value.stacktrace
           /\ checkErr.Status = resp.Body.status
           /\ \A k \in Sentinels : ~Is(checkErr, k)

C4_Witness ==
    /\ ErrorEnvelopeSeen
    /\ resp.Body.value.error = "detached shadow root"
    /\ resp.Body.status = 7
    /\ checkErr.type = "ErrorResponse"
    /\ err = checkErr

(* C5: when the discriminant is recognized, the error check returns has    *)
(* the semantic kind and holds the envelope's message and, when the        *)
(* envelope has one, its stacktrace.                                       *)
C5_CarriesMessageAndStacktrace ==
    (/\ ErrorEnvelopeSeen
     /\ \/ resp.Body.value.error \in DOMAIN errs
        \/ /\ resp.Body.value.error = ""
           /\ resp.Body.status \in (DOMAIN legacyErrs \ {0}))
        => /\ \E k \in Sentinels : Is(checkErr, k)
           /\ \/ /\ checkErr.type = "wrapError"
                 /\ \E n \in DOMAIN checkErr.msg :
                        checkErr.msg[n] = resp.Body.value.message
                 /\ \/ resp.Body.value.stacktrace = ""
                    \/ \E n \in DOMAIN checkErr.msg :
                        checkErr.msg[n] = resp.Body.value.stacktrace
              \/ /\ checkErr.type = "ErrorResponse"
                 /\ checkErr.Value.Message = resp.Body.value.message
                 /\ checkErr.Value.Stacktrace = resp.Body.value.stacktrace

(* C6: when the network attempt fails and ctx is cancelled or past its     *)
(* deadline, do returns ctx.Err(); when it fails and ctx is live, do       *)
(* returns the network error.                                              *)
C6_ContextErrorPreferred ==
    (called /\ ~netOK) =>
        /\ ctxState # "live" => err = [type |-> "ctx", which |-> ctxState]
        /\ ctxState = "live" => err = [type |-> "net"]

C6_Witness ==
    /\ called /\ ~netOK
    /\ ctxState = "DeadlineExceeded"
    /\ err = [type |-> "ctx", which |-> "DeadlineExceeded"]
    /\ v = v0 /\ ~bodyClosed

----------------------------------------------------------------------------
(* Properties of the polling operations, checked under SpecPoll.           *)

(* C7 as stated: a poll that ends with the timeout error has issued        *)
(* floor(T/I) + 1 commands.                                                *)
C7_Original ==
    (pc = "done" /\ ret.type = "timeout")
        => attempts = (maxWait \div ival) + 1

(* C7: a poll that ends with the timeout error has issued at least one     *)
(* and at most floor(T/I) + 2 commands, one more than it slept; it has     *)
(* issued exactly floor(T/I) + 2 when the attempts took no time and every  *)
(* sleep lasted exactly I.                                                 *)
C7_AttemptsBound ==
    (pc = "done" /\ ret.type = "timeout")
        => /\ attempts >= 1
           /\ attempts = sleeps + 1
           /\ attempts <= (maxWait \div ival) + 2
           /\ (now - start = sleeps * ival)
                => attempts = (maxWait \div ival) + 2

C7_Witness ==
    /\ pc = "done" /\ ret.type = "timeout"
    /\ ival = 2 /\ maxWait = 4
    /\ now - start = sleeps * ival
    /\ attempts = 4

(* C8: the timeout error is returned only after an attempt at which the    *)
(* time since start exceeds T, and the elapsed time it reports is that     *)
(* time.                                                                   *)
C8_TimeoutOnlyAfterT ==
    (ret.type = "timeout")
        => /\ pc = "done"
           /\ attempts >= 1
           /\ lastErr = [type |-> "nil"]
           /\ now - start > maxWait
           /\ ret.elapsed = now - start

C8_Witness ==
    /\ pc = "done" /\ ret.type = "timeout"
    /\ start = 1
    /\ maxWait = 3
    /\ ret.elapsed = 4
    /\ sleeps >= 1

(* C9: no sleep precedes the first attempt, which is issued at start; a    *)
(* poll whose first attempt meets the predicate ends with one command      *)
(* issued, no sleep and no error.                                          *)
C9_FirstAttemptImmediate ==
    /\ (pc \in {"loop", "sleep"} /\ attempts = 0)
            => (pc = "loop" /\ sleeps = 0 /\ now = start)
    /\ satisfied = 1
            => /\ pc = "done"
               /\ ret = [type |-> "nil"]
               /\ attempts = 1
               /\ sleeps = 0

C9_Witness ==
    /\ op = "ElementWaitForText"
    /\ satisfied = 1
    /\ pc = "done"
    /\ attempts = 1
    /\ res.Value = "text"

(* C10: after an attempt that returned an error other than the absence     *)
(* the poll waits for, the poll has ended with that error; an ended poll   *)
(* issues no command and does not sleep.                                   *)
C10_ErrorEndsPoll ==
    (/\ attempts >= 1
     /\ lastErr.type \notin {"nil", "noReturn"}
     /\ ~(op = "ElementWaitForUndefined"
          /\ Is(lastErr, "ErrorNoSuchElement")))
        => (pc = "done" /\ ret = lastErr)

C10_Witness ==
    /\ op = "ElementWaitForDisplayed"
    /\ attempts = 2 /\ sleeps = 1
    /\ Is(lastErr, "ErrorNoSuchElement")
    /\ pc = "done"
    /\ ret = lastErr

----------------------------------------------------------------------------
(* Properties of the commands that are no poll, checked under SpecCmd.     *)

(* C11: a command that is no poll issues at most one request, and after a  *)
(* request that failed the command has ended.                              *)
C11_AtMostOneRequest ==
    op \in CmdOps =>
        /\ attempts <= 1
        /\ (attempts >= 1 /\ lastErr # [type |-> "nil"]) => pc = "done"

(* C12: every request handed to the network, each attempt of a poll        *)
(* included, has the body it was constructed with.  Checked under          *)
(* SpecPoll.                                                               *)
C12_SendsRequestAsBuilt ==
    attempts >= 1 => bodyAtSend \in {"none", "unread"}

(* C13: after a single-element lookup whose c.do returned nil: with the    *)
(* W3C key in the decoded value the result is that reference tagged W3C;   *)
(* otherwise with the legacy key it is that reference tagged legacy, with  *)
(* no error; otherwise the error is ErrorNoSuchElement.                    *)
C13_ResolveW3CFirst ==
    (/\ op \in {"ElementFind", "ElementFindFrom"}
     /\ pc = "done" /\ attempts = 1
     /\ lastErr = [type |-> "nil"])
        => LET m == res.Value
           IN  IF "element-6066-11e4-a52e-4f735466cecf" \in DOMAIN m
               THEN /\ ret = [type |-> "nil"]
                    /\ result.ID = "element-6066-11e4-a52e-4f735466cecf"
                    /\ result.Reference
                         = m["element-6066-11e4-a52e-4f735466cecf"]
               ELSE IF "ELEMENT" \in DOMAIN m
               THEN /\ ret = [type |-> "nil"]
                    /\ result.ID = "ELEMENT"
                    /\ result.Reference = m["ELEMENT"]
               ELSE /\ ret = [type |-> "errorString",
                              id |-> "ErrorNoSuchElement"]
                    /\ result = [ID |-> "", Reference |-> ""]

C13_Witness ==
    /\ op = "ElementFindFrom"
    /\ pc = "done" /\ attempts = 1
    /\ lastErr = [type |-> "nil"]
    /\ DOMAIN res.Value = {"element-6066-11e4-a52e-4f735466cecf", "ELEMENT"}
    /\ result = [ID |-> "element-6066-11e4-a52e-4f735466cecf",
                 Reference |-> "ref-w"]

----------------------------------------------------------------------------
(* Properties of New, checked under SpecNew.                               *)

(* New has returned                                                        *)
NewReturned == newErr # [type |-> "noReturn"]

(* C14: for a non-nil session with a non-empty URL that parses, New        *)
(* succeeds and the base URL of the Client ends in exactly one "/".        *)
C14_OneTrailingSlash ==
    (/\ NewReturned
     /\ sess0 # NilSession
     /\ sess0.URL # <<>>
     /\ \A n \in DOMAIN sess0.URL : sess0.URL[n] # "%zz")
        => /\ newErr = [type |-> "nil"]
           /\ client # NoClient
           /\ client.url[Len(client.url)] = "/"
           /\ Len(client.url) > 1 => client.url[Len(client.url) - 1] # "/"

(* C15: New returns an error and no Client when the session is nil or its  *)
(* URL is empty; a Client that New returns has a session and a non-empty   *)
(* base URL.                                                               *)
C15_NoClientWithoutSessionOrURL ==
    NewReturned =>
        /\ (sess0 = NilSession \/ sess0.URL = <<>>)
              => (newErr # [type |-> "nil"] /\ client = NoClient)
        /\ client # NoClient
              => /\ newErr = [type |-> "nil"]
                 /\ sess0 # NilSession
                 /\ sess # NilSession
                 /\ client.url # <<>>

C15_Witness ==
    /\ NewReturned
    /\ sess0 # NilSession
    /\ sess0.URL = <<>>
    /\ client = NoClient
    /\ newErr = [type |-> "errorString", id |-> "URL is empty"]

(* C16: every command issued through a Client builds its target from the   *)
(* base URL and the session ID the Session had when the Client was made,   *)
(* whatever the caller writes to the Session afterwards.                   *)
C16_SessionFixedAtNew ==
    cmds >= 1 =>
        reqURL = ResolveReference(client.url, CommandRoute(cmdOp, sess0.ID))

----------------------------------------------------------------------------
(* Properties of the response body, checked under SpecDo.                  *)

(* C17: when do obtained a response, the body of the response is closed    *)
(* by the time do is over, on every path; with no response there is no     *)
(* body to close.                                                          *)
C17_BodyClosed ==
    called => (bodyClosed <=> netOK)

C17_Witness ==
    /\ called /\ netOK
    /\ checkErr \notin {[type |-> "nil"], [type |-> "notChecked"]}
    /\ err = checkErr
    /\ bodyClosed

(* C18: when closing the body fails, the process does not crash and do     *)
(* still returns its result.                                               *)
C18_CloseFailureHarmless ==
    (called /\ closeErr) => (~panicked /\ err # [type |-> "noReturn"])

(* C19: a 2xx response with an empty body and a non-nil sink: a do that    *)
(* returns, returns no error, and the sink is as the caller passed it.     *)
C19_EmptyBodyIsSuccess ==
    (/\ called /\ netOK
     /\ 200 <= resp.StatusCode /\ resp.StatusCode <= 299
     /\ resp.Body.form = "empty"
     /\ v0.type # "nil")
        => /\ v = v0
           /\ ~panicked => err = [type |-> "nil"]

C19_Witness ==
    /\ called /\ netOK
    /\ resp.StatusCode = 204
    /\ resp.Body.form = "empty"
    /\ v0 = [type |-> "stringValue", Value |-> "old"]
    /\ v = v0
    /\ err = [type |-> "nil"]

(* C20: a body that is no JSON, read as the error body of a response that  *)
(* is not 2xx or decoded into a non-nil sink on a 2xx response: a do that  *)
(* returns, returns the failure of the parse, which is not nil and is none *)
(* of the sentinel errors.                                                 *)
C20_ParseFailureSurfaces ==
    (/\ called /\ netOK /\ ~panicked
     /\ resp.Body.form = "malformed"
     /\ \/ ~(200 <= resp.StatusCode /\ resp.StatusCode <= 299)
        \/ v0.type # "nil")
        => /\ err = [type |-> "json"]
           /\ err # [type |-> "nil"]
           /\ \A k \in Sentinels : ~Is(err, k)

C20_Witness ==
    /\ called /\ netOK /\ ~panicked
    /\ resp.Body.form = "malformed"
    /\ resp.StatusCode = 200
    /\ v0.type = "boolValue"
    /\ err = [type |-> "json"]

----------------------------------------------------------------------------
(* C22: in check the error string comes before the legacy status: a        *)
(* recognized error string gives its own kind whatever the status is, and  *)
(* with an error string that is present no kind comes from the status.     *)
C22_ErrorStringBeforeStatus ==
    ErrorEnvelopeSeen =>
        LET e == resp.Body.value.error
        IN  /\ e \in DOMAIN errs =>
                \A k \in Sentinels : Is(checkErr, k) <=> k = errs[e]
            /\ (e # "" /\ e \notin DOMAIN errs) =>
                \A k \in Sentinels : ~Is(checkErr, k)

C22_Witness ==
    /\ ErrorEnvelopeSeen
    /\ resp.Body.value.error = "stale element reference"
    /\ resp.Body.status = 7
    /\ Is(checkErr, "ErrorStaleElementReference")
    /\ ~Is(checkErr, "ErrorNoSuchElement")

----------------------------------------------------------------------------
(* Properties of the polls' loop, checked under SpecPoll.                  *)

(* C23: in a poll that waits for an element's text, enabled or displayed   *)
(* state, an attempt that returns an error of the kind ErrorNoSuchElement  *)
(* does not end the poll with that error.                                  *)
C23_NotFoundKeepsPolling ==
    (/\ op \in {"ElementWaitForText", "ElementWaitForEnabled",
                "ElementWaitForDisplayed"}
     /\ attempts >= 1
     /\ Is(lastErr, "ErrorNoSuchElement"))
        => ~(pc = "done" /\ ret = lastErr)

(* C24: ElementWaitForUndefined returns nil exactly when an attempt failed *)
(* with an error of the kind ErrorNoSuchElement; an attempt that fails     *)
(* with another error ends the poll with that error; after an attempt      *)
(* that succeeds the poll ends only by the timeout and otherwise goes on.  *)
C24_UndefinedEndsOnNotFound ==
    op = "ElementWaitForUndefined" =>
        /\ pc = "done" =>
              (ret = [type |-> "nil"]
                 <=> (attempts >= 1 /\ Is(lastErr, "ErrorNoSuchElement")))
        /\ (/\ attempts >= 1
            /\ lastErr \notin {[type |-> "nil"], [type |-> "noReturn"]}
            /\ ~Is(lastErr, "ErrorNoSuchElement"))
              => (pc = "done" /\ ret = lastErr)
        /\ (attempts >= 1 /\ lastErr = [type |-> "nil"])
              => IF pc = "done" THEN ret.type = "timeout"
                 ELSE pc \in {"sleep", "loop"}

C24_Witness ==
    /\ op = "ElementWaitForUndefined"
    /\ pc = "done"
    /\ attempts = 1
    /\ Is(lastErr, "ErrorNoSuchElement")
    /\ ret = [type |-> "nil"]

(* C29: an attempt whose result meets the predicate ends the poll with     *)
(* success, also when more than the maximum wait has passed since the      *)
(* start: the predicate is tested before the elapsed time.                 *)
C29_SatisfiedBeforeDeadline ==
    (/\ op \in WaitOps
     /\ attempts >= 1
     /\ \/ /\ op = "ElementWaitForText"
           /\ lastErr = [type |-> "nil"] /\ res.Value # ""
        \/ /\ op \in {"ElementWaitForEnabled", "ElementWaitForDisplayed"}
           /\ lastErr = [type |-> "nil"] /\ res.Value = TRUE
        \/ /\ op = "ElementWaitForUndefined"
           /\ Is(lastErr, "ErrorNoSuchElement"))
        => (pc = "done" /\ ret = [type |-> "nil"])

C29_Witness ==
    /\ op = "ElementWaitForText"
    /\ pc = "done"
    /\ ret = [type |-> "nil"]
    /\ res.Value = "text"
    /\ attempts >= 2
    /\ now - start > maxWait

(* C26: a ctx that is done while the poll sleeps does not end the sleep,   *)
(* which lasts its whole interval; the attempt that follows is the last    *)
(* one and the poll ends with the error of ctx.                            *)
C26_CancelSeenAtNextAttempt ==
    [][/\ (pc = "sleep" /\ ctxDone' # ctxDone)
            => (pc' = "sleep" /\ now' = now)
       /\ (pc = "sleep" /\ ctxDone # "live" /\ pc' # "sleep")
            => (pc' = "loop" /\ now' >= now + ival)
       /\ (pc = "loop" /\ ctxAt = "sleep" /\ attempts' = attempts + 1)
            => (pc' = "done" /\ ret' = [type |-> "ctx", which |-> ctxDone])
      ]_vars

C26_Witness ==
    /\ op = "ElementWaitForEnabled"
    /\ pc = "done"
    /\ ctxAt = "sleep"
    /\ ctxDone = "Canceled"
    /\ sleeps >= 1
    /\ attempts = sleeps + 1
    /\ ret = [type |-> "ctx", which |-> "Canceled"]

(* the three outcomes of a poll that made an attempt                       *)
Satisfied == ret = [type |-> "nil"] /\ satisfied = attempts
TimedOut  == ret.type = "timeout" /\ satisfied = 0
Errored   == ret = lastErr /\ ret.type \notin {"nil", "timeout"}
                /\ satisfied = 0

(* C27: a poll whose attempts return ends, and it ends as exactly one of   *)
(* Satisfied, TimedOut and Errored.  Checked under SpecPollFair.           *)
C27_PollTerminates ==
    /\ [](( pc = "done" /\ attempts >= 1 /\ ret # [type |-> "panic"])
            => /\ Satisfied \/ TimedOut \/ Errored
               /\ ~(Satisfied /\ TimedOut)
               /\ ~(Satisfied /\ Errored)
               /\ ~(TimedOut /\ Errored))
    /\ (pc \in {"loop", "sleep"}) ~> (pc = "done")

C27_Witness ==
    /\ pc = "done"
    /\ attempts >= 3
    /\ TimedOut
    /\ now - start > maxWait

----------------------------------------------------------------------------
(* C25: after a lookup of several elements whose c.do returned nil: an     *)
(* empty list gives ErrorNoSuchElement; otherwise the result has one       *)
(* element per entry, in the order of the response, resolved by the W3C    *)
(* key first and then the legacy key, and the zero WebElement for an entry *)
(* with neither key, with no error.  Checked under SpecCmd.                *)
C25_ListResolvedEntryWise ==
    (/\ op \in {"ElementsFind", "ElementsFindFrom"}
     /\ pc = "done" /\ attempts = 1
     /\ lastErr = [type |-> "nil"])
        => LET l == res.Value
           IN  IF Len(l) = 0
               THEN /\ ret = [type |-> "errorString",
                              id |-> "ErrorNoSuchElement"]
                    /\ result = <<>>
               ELSE /\ ret = [type |-> "nil"]
                    /\ Len(result) = Len(l)
                    /\ \A i \in 1..Len(l) :
                          IF "element-6066-11e4-a52e-4f735466cecf"
                                \in DOMAIN l[i]
                          THEN result[i] =
                                 [ID |-> "element-6066-11e4-a52e-4f735466cecf",
                                  Reference |->
                                    l[i]["element-6066-11e4-a52e-4f735466cecf"]]
                          ELSE IF "ELEMENT" \in DOMAIN l[i]
                          THEN result[i] = [ID |-> "ELEMENT",
                                            Reference |-> l[i]["ELEMENT"]]
                          ELSE result[i] = [ID |-> "", Reference |-> ""]

C25_Witness ==
    /\ op = "ElementsFind"
    /\ pc = "done" /\ attempts = 1
    /\ lastErr = [type |-> "nil"]
    /\ ret = [type |-> "nil"]
    /\ Len(res.Value) = 2
    /\ DOMAIN res.Value[1] = {"shadow-6066-11e4-a52e-4f735466cecf"}
    /\ result = <<[ID |-> "", Reference |-> ""],
                  [ID |-> "ELEMENT", Reference |-> "ref-l"]>>

----------------------------------------------------------------------------
(* C30: the target of every request is the base URL of the Client          *)
(* followed by the path of the command: the base URL is a prefix of the    *)
(* target.  Checked under SpecNew.                                         *)
C30_BaseURLIsPrefix ==
    cmds >= 1 =>
        /\ Len(reqURL) > Len(client.url)
        /\ SubSeq(reqURL, 1, Len(client.url)) = client.url

----------------------------------------------------------------------------
(* C28: the Args of a script request have the length and the order of the  *)
(* arguments; an element resolved from an entry of a response becomes the  *)
(* map of one entry, the marker that matched to its reference; every other *)
(* argument is passed as it is.  Checked under SpecScript.                 *)
C28_ElementRoundTrip ==
    scriptPc = "done" =>
        /\ Len(scriptOut) = Len(scriptEntries)
        /\ \A i \in 1..Len(scriptEntries) :
              LET a == scriptEntries[i]
              IN  IF a.kind # "entry" THEN scriptOut[i] = a
                  ELSE IF "element-6066-11e4-a52e-4f735466cecf" \in DOMAIN a.m
                  THEN scriptOut[i] =
                         [k \in {"element-6066-11e4-a52e-4f735466cecf"} |->
                             a.m["element-6066-11e4-a52e-4f735466cecf"]]
                  ELSE scriptOut[i] = [k \in {"ELEMENT"} |-> a.m["ELEMENT"]]

C28_Witness ==
    /\ scriptPc = "done"
    /\ Len(scriptEntries) = 2
    /\ scriptEntries[1].kind = "entry"
    /\ DOMAIN scriptEntries[1].m = {"ELEMENT"}
    /\ scriptEntries[2].kind = "string"
    /\ scriptOut = <<[k \in {"ELEMENT"} |-> "ref-l"],
                     [kind |-> "string", s |-> "x"]>>

----------------------------------------------------------------------------
(* what a call alone would return for its command and for what the network *)
(* gave its request                                                        *)
AloneOutcome(k) ==
    LET sink == IF cop[k] = "ElementFind"
                THEN [type |-> "elementResponse", Value |-> <<>>]
                ELSE [type |-> "nil"]
        out == do("live", cnet[k].ok, cnet[k].r, cnet[k].closeFails, sink)
    IN  IF out.panicked
        THEN [err |-> [type |-> "panic"],
              elem |-> [ID |-> "none", Reference |-> "none"]]
        ELSE Finish(cop[k], out.err, out.v)

(* C21: under every interleaving of the calls made on one Client, a call   *)
(* that has ended returned what it would return alone for its own request  *)
(* and the response to it, its request was built from the Client as New    *)
(* made it, and the Client, its Session and the error tables are as they   *)
(* were.  Checked under SpecConc.                                          *)
C21_CallsShareNoMutableState ==
    /\ shared = [session |-> [ID |-> "abc", URL |-> <<"http://host", "/">>],
                 url |-> <<"http://host", "/">>,
                 errs |-> errs,
                 legacyErrs |-> legacyErrs]
    /\ \A k \in Callers :
          /\ cpc[k] = "done" => cret[k] = AloneOutcome(k)
          /\ cpc[k] # "idle" =>
                SubSeq(cnet[k].target, 1, 5) =
                    <<"http://host", "/", "session", "/", "abc">>

C21_Witness ==
    /\ overlap
    /\ cpc[1] = "done" /\ cpc[2] = "done"
    /\ cop[1] = "ElementFind" /\ cop[2] = "ElementFind"
    /\ cret[1] = [err |-> [type |-> "nil"],
                  elem |-> [ID |-> "element-6066-11e4-a52e-4f735466cecf",
                            Reference |-> "ref-w"]]
    /\ cret[2] = [err |-> [type |-> "errorString",
                           id |-> "ErrorNoSuchElement"],
                  elem |-> [ID |-> "", Reference |-> ""]]

====
